---- MODULE Spec2Model ----
(***************************************************************************)
(* Backend execution layer of mlx: the per-primitive entry points of the   *)
(* Accelerate CPU backend (mlx/backend/accelerate/primitives.cpp) and of   *)
(* the GPU-less backend (mlx/backend/no_metal/primitives.cpp).             *)
(*                                                                         *)
(* One evaluation call is one behaviour: Init is a scheduled call (the     *)
(* primitive, its parameters, its materialized inputs and its storage-less *)
(* outputs), and one action per entry point runs the call to completion.   *)
(*                                                                         *)
(* Numbers.  A float32 element is held as an integer count of 1/Scale, and *)
(* a float operation rounds its exact result toward zero onto that grid;   *)
(* an integer element is held as itself.  Operands stay within +-MaxVal,   *)
(* so no 32-bit operation of the model overflows.  allocator::             *)
(* malloc_or_wait is taken to return a block: running out of memory is the *)
(* allocator's business and is not modelled.                               *)
(***************************************************************************)
EXTENDS Integers, Sequences, FiniteSets, TLC

VARIABLES
    pc,        \* "ready": the call is scheduled; "done": the entry point returned or threw
    backend,   \* "cpu" (eval_cpu) or "gpu" (eval_gpu)
    prim,      \* the primitive's name
    params,    \* the primitive's own fields (axis_, reverse_, inclusive_, reduce_type_, recip_, base_)
    inputs,    \* the input arrays: dtype, flags, shape, strides, donatable, storage block
    outs,      \* the output arrays: dtype, size, storage block (0: none), assignments of storage
    heap,      \* the storage blocks, each a sequence of elements
    wr,        \* per storage block, the number of element stores made by the call
    err,       \* "none", or the exception type thrown
    msg,       \* the exception's message
    via,       \* the generic routine the call was delegated to, or "none"
    kern,      \* the platform routine (or routines) that stored the output, or "none"
    target,    \* while the call's stores are under way: the blocks and store counts it ends with
    rd         \* the last read of another holder of an input: input, element, value; or Idle

vars == <<pc, backend, prim, params, inputs, outs, heap, wr, err, msg, via, kern,
          target, rd>>

----------------------------------------------------------------------------
(* Bounds *)

MaxVal == 3

MaxLen == 2

MaxCount == 2

MaxAxisLen == 3

Scale == 2

----------------------------------------------------------------------------
(* Element values *)

Vals == (0 - MaxVal)..MaxVal

\* The largest magnitude an element computed from Vals can take.
Big == Scale * (MaxVal + 1) * (MaxVal + 1) * (MaxAxisLen + MaxLen + 1)

\* The content of storage that malloc_or_wait returned and nobody wrote.
Uninit == 0 - Big

\* The result of a routine whose numeric value the model does not compute.
Opaque == Big

AbsV(x) == IF x < 0 THEN 0 - x ELSE x

Sgn(x) == IF x < 0 THEN 0 - 1 ELSE IF x > 0 THEN 1 ELSE 0

\* C integer division (truncating), d # 0.
TruncDiv(n, d) == Sgn(n) * Sgn(d) * (AbsV(n) \div AbsV(d))

\* C integer remainder `%` and std::fmod: the sign of the dividend, d # 0.
TruncRem(n, d) == Sgn(n) * (AbsV(n) % AbsV(d))

\* IEEE-754 remainder: n - q*d with q the integer nearest n/d, ties to even.
NearestRem(n, d) ==
    LET q == AbsV(n) \div AbsV(d)
        r == AbsV(n) % AbsV(d)
        up == (2 * r > AbsV(d)) \/ (2 * r = AbsV(d) /\ q % 2 = 1)
    IN  Sgn(n) * (IF up THEN r - AbsV(d) ELSE r)

\* A sequence of length n counting up from x, wrapping inside Vals.
Ramp(n, x) == [i \in 1..n |-> ((x + MaxVal + i - 1) % (2 * MaxVal + 1)) - MaxVal]

SeqMax(a, b) == IF a > b THEN a ELSE b

----------------------------------------------------------------------------
(* Dtypes *)

DTypes == {"uint8", "uint32", "int32", "int64", "float16", "float32"}

itemsize(dtype) ==
    CASE dtype = "uint8" -> 1
      [] dtype = "float16" -> 2
      [] dtype \in {"uint32", "int32", "float32"} -> 4
      [] dtype = "int64" -> 8

is_floating_point(dtype) == dtype \in {"float16", "float32"}

is_unsigned(dtype) == dtype \in {"uint8", "uint32"}

----------------------------------------------------------------------------
(* Arrays and storage *)

\* An input array.  buf is the index of its storage block in heap.
Arr(dtype, shape, strides, contiguous, row_contiguous, donatable, buf) ==
    [dtype |-> dtype, shape |-> shape, strides |-> strides,
     contiguous |-> contiguous, row_contiguous |-> row_contiguous,
     donatable |-> donatable, buf |-> buf]

\* An output array before evaluation: no storage, never assigned.
OutArr(dtype, size) == [dtype |-> dtype, size |-> size, buf |-> 0, nassign |-> 0]

RECURSIVE Prod(_)
Prod(s) == IF s = <<>> THEN 1 ELSE Head(s) * Prod(Tail(s))

\* array::size(): the number of logical elements.
size(a) == Prod(a.shape)

\* The evaluation state an entry point works on.
Cur == [inputs |-> inputs, outs |-> outs, heap |-> heap, wr |-> wr,
        err |-> err, msg |-> msg, via |-> via, kern |-> kern]

\* in.data<T>(): the elements of input i's storage.
data(st, i) == st.heap[st.inputs[i].buf]

\* array::data_size() of input i.
data_size(st, i) == Len(data(st, i))

\* throw E(m): the call ends here; later steps of the entry point do not run.
Throw(st, type, m) ==
    IF st.err # "none" THEN st ELSE [st EXCEPT !.err = type, !.msg = m]

\* out.copy_shared_buffer(in): output k takes input i's storage block.
copy_shared_buffer_k(st, k, i) ==
    IF st.err # "none" THEN st
    ELSE [st EXCEPT !.outs[k].buf = st.inputs[i].buf,
                    !.outs[k].nassign = @ + 1]

copy_shared_buffer(st, i) == copy_shared_buffer_k(st, 1, i)

\* out.set_data(allocator::malloc_or_wait(...)): output k gets a new block of
\* n elements whose content is whatever the allocator returned.
set_data_malloc_k(st, k, n) ==
    IF st.err # "none" THEN st
    ELSE [st EXCEPT !.heap = Append(@, [j \in 1..n |-> Uninit]),
                    !.wr = Append(@, 0),
                    !.outs[k].buf = Len(st.heap) + 1,
                    !.outs[k].nassign = @ + 1]

set_data_malloc(st, n) == set_data_malloc_k(st, 1, n)

\* A routine stores vals[1..n] into the first n elements of output k's storage.
StoreOut_k(st, k, vals) ==
    LET b == st.outs[k].buf IN
    IF st.err # "none" \/ b = 0 THEN st
    ELSE [st EXCEPT !.heap[b] = [j \in DOMAIN @ |->
                                    IF j <= Len(vals) THEN vals[j] ELSE @[j]],
                    !.wr[b] = @ + Len(vals)]

StoreOut(st, vals) == StoreOut_k(st, 1, vals)

\* The platform routine `name` stores vals into output 1.
Routine(st, name, vals) ==
    IF st.err # "none" THEN st ELSE StoreOut([st EXCEPT !.kern = name], vals)

\* Buffer donation protocol for one source: input i qualifies iff it is
\* donatable and its itemsize is the output's.
Qualifies(st, k, i) ==
    /\ st.inputs[i].donatable
    /\ itemsize(st.inputs[i].dtype) = itemsize(st.outs[k].dtype)

\* set_unary_output_data(in, out) of backend/common/unary.h.
set_unary_output_data(st) ==
    IF Qualifies(st, 1, 1)
    THEN copy_shared_buffer(st, 1)
    ELSE set_data_malloc(st, data_size(st, 1))

----------------------------------------------------------------------------
(* Generic evaluation: the unary engine and Primitive::eval *)

\* AbsOp of backend/common/ops.h
AbsOp(x) == AbsV(x)

\* [](auto x) { return -x; }; an unsigned operand wraps modulo 2^bits, which
\* for a nonzero operand lies outside the model's integers.
Negative_op(dtype, x) ==
    IF is_unsigned(dtype) THEN (IF x = 0 THEN 0 ELSE Opaque) ELSE 0 - x

\* [](auto x) { return x * x; }
Square_op(dtype, x) ==
    IF is_floating_point(dtype) THEN TruncDiv(x * x, Scale) ELSE x * x

\* [](auto x) { return std::exp(x); }: the value is not computed by the model.
Exp_op(x) == Opaque

\* [](auto x) { return std::log1p(x); }: the value is not computed by the model.
Log1p_op(x) == Opaque

ApplyUnary(op, dtype, x) ==
    CASE op = "AbsOp" -> AbsOp(x)
      [] op = "Negative" -> Negative_op(dtype, x)
      [] op = "Square" -> Square_op(dtype, x)
      [] op = "Exp" -> Exp_op(x)
      [] op = "Log1p" -> Log1p_op(x)

\* unary(in, out, op): out[i] = op(in[i]) for every element, after the output
\* storage was donated or allocated.
unary(st, op) ==
    IF st.err # "none" THEN st
    ELSE StoreOut([set_unary_output_data(st) EXCEPT !.via = "unary"],
                  [j \in 1..data_size(st, 1) |->
                      ApplyUnary(op, st.inputs[1].dtype, data(st, 1)[j])])

\* unary_fp(in, out, op): as unary, for a floating-point output only.
unary_fp(st, op) ==
    IF st.err # "none" THEN st
    ELSE IF ~is_floating_point(st.outs[1].dtype)
    THEN Throw([st EXCEPT !.via = "unary_fp"], "invalid_argument",
               "[unary_fp] Does not support non floating point type.")
    ELSE StoreOut([set_unary_output_data(st) EXCEPT !.via = "unary_fp"],
                  [j \in 1..data_size(st, 1) |->
                      ApplyUnary(op, st.inputs[1].dtype, data(st, 1)[j])])

\* The primitives whose generic evaluation accepts a floating-point output only.
FloatOnlyPrims == {"Exp", "Log", "Log1p"}

\* Storage of output k in the generic evaluation: the first input that
\* qualifies for donation and is large enough gives its block to output 1,
\* else a new block.
RECURSIVE GenericStorage(_, _, _)
GenericStorage(st, k, i) ==
    IF k > 1 \/ i > Len(st.inputs) THEN set_data_malloc_k(st, k, st.outs[k].size)
    ELSE IF Qualifies(st, k, i) /\ data_size(st, i) >= st.outs[k].size
    THEN copy_shared_buffer_k(st, k, i)
    ELSE GenericStorage(st, k, i + 1)

RECURSIVE GenericOutputs(_, _)
GenericOutputs(st, k) ==
    IF k > Len(st.outs) THEN st
    ELSE GenericOutputs(
             StoreOut_k(GenericStorage(st, k, 1), k,
                        [j \in 1..st.outs[k].size |-> Opaque]),
             k + 1)

\* Primitive::eval(inputs, out) and Primitive::eval(inputs, outputs): the
\* backend-agnostic evaluation of primitive p.
eval(st, p) ==
    IF st.err # "none" THEN st
    ELSE IF p \in FloatOnlyPrims /\ ~is_floating_point(st.outs[1].dtype)
    THEN Throw([st EXCEPT !.via = "eval"], "invalid_argument",
               "Cannot compute elements in array with non floating point type.")
    ELSE GenericOutputs([st EXCEPT !.via = "eval"], 1)

----------------------------------------------------------------------------
(* Platform routines on dense buffers (vDSP, vForce), unary *)

\* The routine reads input 1 and stores f(in[j]) in out[j], j = 1..n.
In1(st) == data(st, 1)

\* vDSP_vabs(in, 1, out, 1, n)
vDSP_vabs(st) == Routine(st, "vDSP_vabs", [j \in DOMAIN In1(st) |-> AbsV(In1(st)[j])])

\* vDSP_vabsi(in, 1, out, 1, n)
vDSP_vabsi(st) == Routine(st, "vDSP_vabsi", [j \in DOMAIN In1(st) |-> AbsV(In1(st)[j])])

\* vDSP_vneg(in, 1, out, 1, n)
vDSP_vneg(st) == Routine(st, "vDSP_vneg", [j \in DOMAIN In1(st) |-> 0 - In1(st)[j]])

\* vDSP_vsq(in, 1, out, 1, n)
vDSP_vsq(st) ==
    Routine(st, "vDSP_vsq", [j \in DOMAIN In1(st) |-> TruncDiv(In1(st)[j] * In1(st)[j], Scale)])

\* A vForce routine vvXf(out, in, &n): n elements stored; their values are
\* not computed by the model.
vForce(st, vvXf) == Routine(st, vvXf, [j \in DOMAIN In1(st) |-> Opaque])

\* vDSP_vfixu32: float -> uint32, toward zero; a negative operand has no
\* defined result.
vDSP_vfixu32(st) ==
    Routine(st, "vDSP_vfixu32", [j \in DOMAIN In1(st) |->
                     IF In1(st)[j] < 0 THEN Opaque ELSE TruncDiv(In1(st)[j], Scale)])

\* vDSP_vfix32: float -> int32, toward zero.
vDSP_vfix32(st) == Routine(st, "vDSP_vfix32", [j \in DOMAIN In1(st) |-> TruncDiv(In1(st)[j], Scale)])

\* vDSP_vfltu32: uint32 -> float.
vDSP_vfltu32(st) == Routine(st, "vDSP_vfltu32", [j \in DOMAIN In1(st) |-> In1(st)[j] * Scale])

\* vDSP_vflt32: int32 -> float.
vDSP_vflt32(st) == Routine(st, "vDSP_vflt32", [j \in DOMAIN In1(st) |-> In1(st)[j] * Scale])

\* vDSP_vfill(in, out, 1, out.size())
vDSP_vfill(st) == Routine(st, "vDSP_vfill", [j \in 1..st.outs[1].size |-> In1(st)[1]])

----------------------------------------------------------------------------
(* Accelerate CPU backend: DEFAULT and the unary entry points *)

DefaultPrims ==
    {"Arange", "ArgPartition", "ArgReduce", "ArgSort", "AsStrided", "Broadcast",
     "Ceil", "Concatenate", "Copy", "Equal", "Erf", "ErfInv", "FFT", "Floor",
     "Gather", "Greater", "GreaterEqual", "Less", "LessEqual", "Load",
     "LogicalNot", "LogicalAnd", "LogicalOr", "LogAddExp", "Maximum", "Minimum",
     "NotEqual", "Pad", "Partition", "RandomBits", "Reshape", "Round", "Scatter",
     "Sigmoid", "Sign", "Slice", "Sort", "StopGradient", "Transpose"}

DefaultMultiPrims == {"Compiled", "CustomVJP", "Depends", "DivMod", "QRF", "Split"}

\* DEFAULT(primitive)
DEFAULT(primitive, st) == eval(st, primitive)

\* DEFAULT_MULTI(primitive)
DEFAULT_MULTI(primitive, st) == eval(st, primitive)

\* Abs::eval_cpu as it would be if the fast paths took the input's storage
\* without asking whether it may be donated.
Abs_eval_cpu_always_aliases(st) ==
    LET in == st.inputs[1] IN
    IF in.dtype = "float32" /\ in.contiguous
    THEN vDSP_vabs(copy_shared_buffer(st, 1))
    ELSE IF in.dtype = "int32" /\ in.contiguous
    THEN vDSP_vabsi(copy_shared_buffer(st, 1))
    ELSE IF is_unsigned(in.dtype)
    THEN copy_shared_buffer(st, 1)
    ELSE unary(st, "AbsOp")

\* Abs::eval_cpu as it would be without the unsigned no-op branch.
Abs_eval_cpu_no_unsigned_branch(st) ==
    LET in == st.inputs[1] IN
    IF in.dtype = "float32" /\ in.contiguous
    THEN vDSP_vabs(set_unary_output_data(st))
    ELSE IF in.dtype = "int32" /\ in.contiguous
    THEN vDSP_vabsi(set_unary_output_data(st))
    ELSE unary(st, "AbsOp")

Abs_eval_cpu(st) ==
    LET in == st.inputs[1] IN
    IF in.dtype = "float32" /\ in.contiguous
    THEN vDSP_vabs(set_unary_output_data(st))
    ELSE IF in.dtype = "int32" /\ in.contiguous
    THEN vDSP_vabsi(set_unary_output_data(st))
    ELSE IF is_unsigned(in.dtype)
    THEN copy_shared_buffer(st, 1)
    ELSE unary(st, "AbsOp")

\* The body shared, word for word, by the float32 vForce entry points.
ArcCos_eval_cpu(st) ==
    IF st.outs[1].dtype = "float32" /\ st.inputs[1].contiguous
    THEN vForce(set_unary_output_data(st), "vvacosf")
    ELSE eval(st, "ArcCos")

ArcCosh_eval_cpu(st) ==
    IF st.outs[1].dtype = "float32" /\ st.inputs[1].contiguous
    THEN vForce(set_unary_output_data(st), "vvacoshf")
    ELSE eval(st, "ArcCosh")

ArcSin_eval_cpu(st) ==
    IF st.outs[1].dtype = "float32" /\ st.inputs[1].contiguous
    THEN vForce(set_unary_output_data(st), "vvasinf")
    ELSE eval(st, "ArcSin")

ArcSinh_eval_cpu(st) ==
    IF st.outs[1].dtype = "float32" /\ st.inputs[1].contiguous
    THEN vForce(set_unary_output_data(st), "vvasinhf")
    ELSE eval(st, "ArcSinh")

ArcTan_eval_cpu(st) ==
    IF st.outs[1].dtype = "float32" /\ st.inputs[1].contiguous
    THEN vForce(set_unary_output_data(st), "vvatanf")
    ELSE eval(st, "ArcTan")

ArcTanh_eval_cpu(st) ==
    IF st.outs[1].dtype = "float32" /\ st.inputs[1].contiguous
    THEN vForce(set_unary_output_data(st), "vvatanhf")
    ELSE eval(st, "ArcTanh")

\* AsType::eval_cpu as it would be without the return statements of its
\* fast paths: the generic evaluation runs after the fast path.
AsType_eval_cpu_falls_through(st) ==
    LET in == st.inputs[1]
        out == st.outs[1]
    IN  IF in.contiguous /\ in.dtype = "float32" /\ out.dtype = "uint32"
        THEN eval(vDSP_vfixu32(set_unary_output_data(st)), "AsType")
        ELSE IF in.contiguous /\ in.dtype = "float32" /\ out.dtype = "int32"
        THEN eval(vDSP_vfix32(set_unary_output_data(st)), "AsType")
        ELSE IF in.contiguous /\ in.dtype = "uint32" /\ out.dtype = "float32"
        THEN eval(vDSP_vfltu32(set_unary_output_data(st)), "AsType")
        ELSE IF in.contiguous /\ in.dtype = "int32" /\ out.dtype = "float32"
        THEN eval(vDSP_vflt32(set_unary_output_data(st)), "AsType")
        ELSE eval(st, "AsType")

AsType_eval_cpu(st) ==
    LET in == st.inputs[1]
        out == st.outs[1]
    IN  IF in.contiguous /\ in.dtype = "float32" /\ out.dtype = "uint32"
        THEN vDSP_vfixu32(set_unary_output_data(st))
        ELSE IF in.contiguous /\ in.dtype = "float32" /\ out.dtype = "int32"
        THEN vDSP_vfix32(set_unary_output_data(st))
        ELSE IF in.contiguous /\ in.dtype = "uint32" /\ out.dtype = "float32"
        THEN vDSP_vfltu32(set_unary_output_data(st))
        ELSE IF in.contiguous /\ in.dtype = "int32" /\ out.dtype = "float32"
        THEN vDSP_vflt32(set_unary_output_data(st))
        ELSE eval(st, "AsType")

Cos_eval_cpu(st) ==
    IF st.outs[1].dtype = "float32" /\ st.inputs[1].contiguous
    THEN vForce(set_unary_output_data(st), "vvcosf")
    ELSE eval(st, "Cos")

Cosh_eval_cpu(st) ==
    IF st.outs[1].dtype = "float32" /\ st.inputs[1].contiguous
    THEN vForce(set_unary_output_data(st), "vvcoshf")
    ELSE eval(st, "Cosh")

\* Exp::eval_cpu as it would be if the fast path tested the layout alone.
Exp_eval_cpu_layout_only(st) ==
    IF st.inputs[1].contiguous
    THEN vForce(set_unary_output_data(st), "vvexpf")
    ELSE IF is_floating_point(st.outs[1].dtype)
    THEN unary_fp(st, "Exp")
    ELSE Throw(st, "invalid_argument",
               "[exp] Cannot exponentiate elements in array with non floating point type.")

Exp_eval_cpu(st) ==
    IF st.outs[1].dtype = "float32" /\ st.inputs[1].contiguous
    THEN vForce(set_unary_output_data(st), "vvexpf")
    ELSE IF is_floating_point(st.outs[1].dtype)
    THEN unary_fp(st, "Exp")
    ELSE Throw(st, "invalid_argument",
               "[exp] Cannot exponentiate elements in array with non floating point type.")

Full_eval_cpu(st) ==
    IF data_size(st, 1) = 1 /\ st.outs[1].dtype = "float32"
    THEN vDSP_vfill(set_data_malloc(st, st.outs[1].size))
    ELSE eval(st, "Full")

\* Log::eval_cpu as it would be if the fast path tested the input's dtype
\* instead of the output's.
Log_eval_cpu_tests_input_dtype(st) ==
    IF st.inputs[1].dtype = "float32" /\ st.inputs[1].contiguous
    THEN CASE params.base = "e" -> vForce(set_unary_output_data(st), "vvlogf")
           [] params.base = "two" -> vForce(set_unary_output_data(st), "vvlog2f")
           [] params.base = "ten" -> vForce(set_unary_output_data(st), "vvlog10f")
    ELSE eval(st, "Log")

\* The three cases of switch (base_) call vvlogf, vvlog2f and vvlog10f.
Log_eval_cpu(st) ==
    IF st.outs[1].dtype = "float32" /\ st.inputs[1].contiguous
    THEN CASE params.base = "e" -> vForce(set_unary_output_data(st), "vvlogf")
           [] params.base = "two" -> vForce(set_unary_output_data(st), "vvlog2f")
           [] params.base = "ten" -> vForce(set_unary_output_data(st), "vvlog10f")
    ELSE eval(st, "Log")

Log1p_eval_cpu(st) ==
    IF st.outs[1].dtype = "float32" /\ st.inputs[1].contiguous
    THEN vForce(set_unary_output_data(st), "vvlog1pf")
    ELSE IF is_floating_point(st.outs[1].dtype)
    THEN unary_fp(st, "Log1p")
    ELSE Throw(st, "invalid_argument",
               "[log1p] Cannot compute log of elements in array with non floating point type.")

Negative_eval_cpu(st) ==
    IF st.inputs[1].dtype = "float32" /\ st.inputs[1].contiguous
    THEN vDSP_vneg(set_unary_output_data(st))
    ELSE unary(st, "Negative")

Sin_eval_cpu(st) ==
    IF st.outs[1].dtype = "float32" /\ st.inputs[1].contiguous
    THEN vForce(set_unary_output_data(st), "vvsinf")
    ELSE eval(st, "Sin")

Sinh_eval_cpu(st) ==
    IF st.outs[1].dtype = "float32" /\ st.inputs[1].contiguous
    THEN vForce(set_unary_output_data(st), "vvsinhf")
    ELSE eval(st, "Sinh")

Square_eval_cpu(st) ==
    IF st.inputs[1].dtype = "float32" /\ st.inputs[1].contiguous
    THEN vDSP_vsq(set_unary_output_data(st))
    ELSE unary(st, "Square")

\* recip_ selects vvrsqrtf, else vvsqrtf.
Sqrt_eval_cpu(st) ==
    IF st.inputs[1].dtype = "float32" /\ st.inputs[1].contiguous
    THEN (IF params.recip THEN vForce(set_unary_output_data(st), "vvrsqrtf")
                          ELSE vForce(set_unary_output_data(st), "vvsqrtf"))
    ELSE eval(st, "Sqrt")

Tan_eval_cpu(st) ==
    IF st.outs[1].dtype = "float32" /\ st.inputs[1].contiguous
    THEN vForce(set_unary_output_data(st), "vvtanf")
    ELSE eval(st, "Tan")

Tanh_eval_cpu(st) ==
    IF st.outs[1].dtype = "float32" /\ st.inputs[1].contiguous
    THEN vForce(set_unary_output_data(st), "vvtanhf")
    ELSE eval(st, "Tanh")

----------------------------------------------------------------------------
(* Platform routines on dense buffers (vDSP, vForce), binary.  A pointer   *)
(* argument is the sequence it points at; a scalar argument is passed by   *)
(* pointer and read as element 1.                                          *)

\* float32 product and quotient on the grid; x / 0 is an infinity or a NaN.
FMul(x, y) == TruncDiv(x * y, Scale)

FDiv(x, y) == IF y = 0 THEN Opaque ELSE TruncDiv(x * Scale, y)

\* vDSP_vsadd(A, 1, B, C, 1, N): C[n] = A[n] + *B
vDSP_vsadd(A, B) == [j \in DOMAIN A |-> A[j] + B[1]]

\* vDSP_vadd(A, 1, B, 1, C, 1, N): C[n] = A[n] + B[n]
vDSP_vadd(A, B) == [j \in DOMAIN A |-> A[j] + B[j]]

\* vDSP_vsaddi(A, 1, B, C, 1, N): C[n] = A[n] + *B
vDSP_vsaddi(A, B) == [j \in DOMAIN A |-> A[j] + B[1]]

\* vDSP_vaddi(A, 1, B, 1, C, 1, N): C[n] = A[n] + B[n]
vDSP_vaddi(A, B) == [j \in DOMAIN A |-> A[j] + B[j]]

\* vDSP_vsmul(A, 1, B, C, 1, N): C[n] = A[n] * *B
vDSP_vsmul(A, B) == [j \in DOMAIN A |-> FMul(A[j], B[1])]

\* vDSP_vmul(A, 1, B, 1, C, 1, N): C[n] = A[n] * B[n]
vDSP_vmul(A, B) == [j \in DOMAIN A |-> FMul(A[j], B[j])]

\* vDSP_vsdivi(A, 1, B, C, 1, N): C[n] = A[n] / *B
vDSP_vsdivi(A, B) == [j \in DOMAIN A |-> TruncDiv(A[j], B[1])]

\* vDSP_vdivi(B, 1, A, 1, C, 1, N): C[n] = A[n] / B[n]
vDSP_vdivi(B, A) == [j \in DOMAIN A |-> TruncDiv(A[j], B[j])]

\* vDSP_svdiv(A, B, 1, C, 1, N): C[n] = *A / B[n]
vDSP_svdiv(A, B) == [j \in DOMAIN B |-> FDiv(A[1], B[j])]

\* vDSP_vsdiv(A, 1, B, C, 1, N): C[n] = A[n] / *B
vDSP_vsdiv(A, B) == [j \in DOMAIN A |-> FDiv(A[j], B[1])]

\* vDSP_vdiv(B, 1, A, 1, C, 1, N): C[n] = A[n] / B[n]
vDSP_vdiv(B, A) == [j \in DOMAIN A |-> FDiv(A[j], B[j])]

\* vDSP_vsmsa(A, 1, B, C, D, 1, N): D[n] = A[n] * *B + *C
vDSP_vsmsa(A, B, C) == [j \in DOMAIN A |-> FMul(A[j], B[1]) + C[1]]

\* vDSP_vsub(B, 1, A, 1, C, 1, N): C[n] = A[n] - B[n]
vDSP_vsub(B, A) == [j \in DOMAIN A |-> A[j] - B[j]]

\* vvremainderf(z, y, x, &n): z[i] = the IEEE remainder of y[i] / x[i], the
\* quotient rounded to the nearest integer; x[i] = 0 gives a NaN.
vvremainderf(y, x) ==
    [j \in DOMAIN y |-> IF x[j] = 0 THEN Opaque ELSE NearestRem(y[j], x[j])]

----------------------------------------------------------------------------
(* The per-element ops and the specialized kernels passed to binary() *)

\* [](auto x, auto y) { return x + y; }
Add_op(x, y) == x + y

Add_float32_opsv(s, vec) == vDSP_vsadd(vec, s)

Add_float32_opvs(vec, s) == vDSP_vsadd(vec, s)

Add_float32_opvv(a, b) == vDSP_vadd(a, b)

Add_int32_opsv(s, vec) == vDSP_vsaddi(vec, s)

Add_int32_opvs(vec, s) == vDSP_vsaddi(vec, s)

Add_int32_opvv(a, b) == vDSP_vaddi(a, b)

\* [](auto x, auto y) { return x / y; }; integer division by zero is excluded
\* from the calls.
Divide_op(dtype, x, y) ==
    IF is_floating_point(dtype) THEN FDiv(x, y) ELSE TruncDiv(x, y)

Divide_int32_opvs(vec, s) == vDSP_vsdivi(vec, s)

Divide_int32_opvv(a, b) == vDSP_vdivi(b, a)

Divide_float32_opsv(s, vec) == vDSP_svdiv(s, vec)

Divide_float32_opvs(vec, s) == vDSP_vsdiv(vec, s)

\* The float32 vector-vector kernel of Divide as it would be with the
\* operands passed to vDSP_vdiv in the order of the lambda's parameters.
Divide_float32_opvv_operands_in_order(a, b) == vDSP_vdiv(a, b)

Divide_float32_opvv(a, b) == vDSP_vdiv(b, a)

\* RemainderFn: std::fmod for a non-integral T, % for an integral T.
RemainderFn(dtype, numerator, denominator) ==
    IF is_floating_point(dtype)
    THEN (IF denominator = 0 THEN Opaque ELSE TruncRem(numerator, denominator))
    ELSE TruncRem(numerator, denominator)

Remainder_float32_opvv(a, b) == vvremainderf(a, b)

\* [](auto x, auto y) { return x * y; }
Multiply_op(dtype, x, y) == IF is_floating_point(dtype) THEN FMul(x, y) ELSE x * y

Multiply_float32_opsv(s, vec) == vDSP_vsmul(vec, s)

Multiply_float32_opvs(vec, s) == vDSP_vsmul(vec, s)

Multiply_float32_opvv(a, b) == vDSP_vmul(a, b)

\* [](auto x, auto y) { return x - y; }
Subtract_op(x, y) == x - y

\* float minus_1 = -1;
Subtract_float32_opsv(s, vec) == vDSP_vsmsa(vec, <<0 - Scale>>, s)

\* float val = -(*s);
Subtract_float32_opvs(vec, s) == vDSP_vsadd(vec, <<0 - s[1]>>)

Subtract_float32_opvv(a, b) == vDSP_vsub(b, a)

\* int val = -(*s);
Subtract_int32_opvs(vec, s) == vDSP_vsaddi(vec, <<0 - s[1]>>)

\* UseDefaultBinaryOp(): the slot holds no kernel.
UseDefaultBinaryOp == "UseDefaultBinaryOp"

\* The call op(x, y) of the per-element op named `op`.
GenericOp(op, dtype, x, y) ==
    CASE op = "Add" -> Add_op(x, y)
      [] op = "Divide" -> Divide_op(dtype, x, y)
      [] op = "Remainder" -> RemainderFn(dtype, x, y)
      [] op = "Multiply" -> Multiply_op(dtype, x, y)
      [] op = "Subtract" -> Subtract_op(x, y)

\* The call k(p, q, out, n) of the kernel named `k`.
Kernel(k, p, q) ==
    CASE k = "Add_float32_opsv" -> Add_float32_opsv(p, q)
      [] k = "Add_float32_opvs" -> Add_float32_opvs(p, q)
      [] k = "Add_float32_opvv" -> Add_float32_opvv(p, q)
      [] k = "Add_int32_opsv" -> Add_int32_opsv(p, q)
      [] k = "Add_int32_opvs" -> Add_int32_opvs(p, q)
      [] k = "Add_int32_opvv" -> Add_int32_opvv(p, q)
      [] k = "Divide_int32_opvs" -> Divide_int32_opvs(p, q)
      [] k = "Divide_int32_opvv" -> Divide_int32_opvv(p, q)
      [] k = "Divide_float32_opsv" -> Divide_float32_opsv(p, q)
      [] k = "Divide_float32_opvs" -> Divide_float32_opvs(p, q)
      [] k = "Divide_float32_opvv" -> Divide_float32_opvv(p, q)
      [] k = "Remainder_float32_opvv" -> Remainder_float32_opvv(p, q)
      [] k = "Multiply_float32_opsv" -> Multiply_float32_opsv(p, q)
      [] k = "Multiply_float32_opvs" -> Multiply_float32_opvs(p, q)
      [] k = "Multiply_float32_opvv" -> Multiply_float32_opvv(p, q)
      [] k = "Subtract_float32_opsv" -> Subtract_float32_opsv(p, q)
      [] k = "Subtract_float32_opvs" -> Subtract_float32_opvs(p, q)
      [] k = "Subtract_float32_opvv" -> Subtract_float32_opvv(p, q)
      [] k = "Subtract_int32_opvs" -> Subtract_int32_opvs(p, q)

----------------------------------------------------------------------------
(* The binary engine *)

\* The structural case of the operands.
BinaryOpType(st) ==
    LET a == st.inputs[1]
        b == st.inputs[2]
    IN  IF data_size(st, 1) = 1 /\ data_size(st, 2) = 1 THEN "ScalarScalar"
        ELSE IF data_size(st, 1) = 1 /\ b.contiguous THEN "ScalarVector"
        ELSE IF data_size(st, 2) = 1 /\ a.contiguous THEN "VectorScalar"
        ELSE IF a.row_contiguous /\ b.row_contiguous
                /\ data_size(st, 1) = data_size(st, 2) THEN "VectorVector"
        ELSE "General"

\* Element j of an operand under broadcasting: a single element stretches.
Elem(v, j) == IF Len(v) = 1 THEN v[1] ELSE v[j]

\* Output storage of the binary engine: the first operand that qualifies for
\* donation and holds as many elements as the output, else a new block.
set_binary_op_output_data(st) ==
    IF Qualifies(st, 1, 1) /\ data_size(st, 1) = st.outs[1].size
    THEN copy_shared_buffer(st, 1)
    ELSE IF Qualifies(st, 1, 2) /\ data_size(st, 2) = st.outs[1].size
    THEN copy_shared_buffer(st, 2)
    ELSE set_data_malloc(st, st.outs[1].size)

\* binary(a, b, out, op, opsv, opvs, opvv): the structural case first, then
\* the kernel of that case if the slot holds one, else op element by element.
binary(st, op, opsv, opvs, opvv) ==
    LET a == data(st, 1)
        b == data(st, 2)
        bopt == BinaryOpType(st)
        slot == CASE bopt = "ScalarVector" -> opsv
                  [] bopt = "VectorScalar" -> opvs
                  [] bopt = "VectorVector" -> opvv
                  [] OTHER -> UseDefaultBinaryOp
        vals == IF slot = UseDefaultBinaryOp
                THEN [j \in 1..st.outs[1].size |->
                         GenericOp(op, st.inputs[1].dtype, Elem(a, j), Elem(b, j))]
                ELSE Kernel(slot, a, b)
        s1 == [set_binary_op_output_data(st) EXCEPT !.via = "binary"]
    IN  IF st.err # "none" THEN st
        ELSE IF slot = UseDefaultBinaryOp THEN StoreOut(s1, vals)
        ELSE Routine(s1, slot, vals)

----------------------------------------------------------------------------
(* Accelerate CPU backend: the binary entry points *)

Add_eval_cpu(st) ==
    IF st.inputs[1].dtype = "float32"
    THEN binary(st, "Add", "Add_float32_opsv", "Add_float32_opvs", "Add_float32_opvv")
    ELSE IF st.inputs[1].dtype = "int32"
    THEN binary(st, "Add", "Add_int32_opsv", "Add_int32_opvs", "Add_int32_opvv")
    ELSE binary(st, "Add", UseDefaultBinaryOp, UseDefaultBinaryOp, UseDefaultBinaryOp)

Divide_eval_cpu(st) ==
    IF st.inputs[1].dtype = "int32"
    THEN binary(st, "Divide", UseDefaultBinaryOp, "Divide_int32_opvs", "Divide_int32_opvv")
    ELSE IF st.inputs[1].dtype = "float32"
    THEN binary(st, "Divide", "Divide_float32_opsv", "Divide_float32_opvs",
                "Divide_float32_opvv")
    ELSE binary(st, "Divide", UseDefaultBinaryOp, UseDefaultBinaryOp, UseDefaultBinaryOp)

Remainder_eval_cpu(st) ==
    IF st.inputs[1].dtype = "float32"
    THEN binary(st, "Remainder", UseDefaultBinaryOp, UseDefaultBinaryOp,
                "Remainder_float32_opvv")
    ELSE binary(st, "Remainder", UseDefaultBinaryOp, UseDefaultBinaryOp,
                UseDefaultBinaryOp)

Multiply_eval_cpu(st) ==
    IF st.inputs[1].dtype = "float32"
    THEN binary(st, "Multiply", "Multiply_float32_opsv", "Multiply_float32_opvs",
                "Multiply_float32_opvv")
    ELSE binary(st, "Multiply", UseDefaultBinaryOp, UseDefaultBinaryOp,
                UseDefaultBinaryOp)

Subtract_eval_cpu(st) ==
    IF st.inputs[1].dtype = "float32"
    THEN binary(st, "Subtract", "Subtract_float32_opsv", "Subtract_float32_opvs",
                "Subtract_float32_opvv")
    ELSE IF st.inputs[1].dtype = "int32"
    THEN binary(st, "Subtract", UseDefaultBinaryOp, "Subtract_int32_opvs",
                UseDefaultBinaryOp)
    ELSE binary(st, "Subtract", UseDefaultBinaryOp, UseDefaultBinaryOp,
                UseDefaultBinaryOp)

\* vvpowf(z, y, x, &n): z[i] = x[i] ^ y[i]; the values are not computed by
\* the model.
vvpowf(st, y, x, n) == Routine(st, "vvpowf", [j \in 1..n |-> Opaque])

\* Power::eval_cpu as it would be if b were asked for its storage before a.
Power_eval_cpu_b_first(st) ==
    LET a == st.inputs[1]
        b == st.inputs[2]
        out == st.outs[1]
    IN  IF out.dtype = "float32" /\ a.row_contiguous /\ b.row_contiguous
        THEN vvpowf(
                 IF b.donatable /\ itemsize(b.dtype) = itemsize(out.dtype)
                 THEN copy_shared_buffer(st, 2)
                 ELSE IF a.donatable /\ itemsize(a.dtype) = itemsize(out.dtype)
                 THEN copy_shared_buffer(st, 1)
                 ELSE set_data_malloc(st, out.size),
                 data(st, 2), data(st, 1), size(a))
        ELSE eval(st, "Power")

\* Power::eval_cpu as it would be if a's storage were taken without asking
\* a.is_donatable().
Power_eval_cpu_takes_a_unasked(st) ==
    LET a == st.inputs[1]
        b == st.inputs[2]
        out == st.outs[1]
    IN  IF out.dtype = "float32" /\ a.row_contiguous /\ b.row_contiguous
        THEN vvpowf(
                 IF itemsize(a.dtype) = itemsize(out.dtype)
                 THEN copy_shared_buffer(st, 1)
                 ELSE IF b.donatable /\ itemsize(b.dtype) = itemsize(out.dtype)
                 THEN copy_shared_buffer(st, 2)
                 ELSE set_data_malloc(st, out.size),
                 data(st, 2), data(st, 1), size(a))
        ELSE eval(st, "Power")

Power_eval_cpu(st) ==
    LET a == st.inputs[1]
        b == st.inputs[2]
        out == st.outs[1]
    IN  IF out.dtype = "float32" /\ a.row_contiguous /\ b.row_contiguous
        THEN vvpowf(
                 IF a.donatable /\ itemsize(a.dtype) = itemsize(out.dtype)
                 THEN copy_shared_buffer(st, 1)
                 ELSE IF b.donatable /\ itemsize(b.dtype) = itemsize(out.dtype)
                 THEN copy_shared_buffer(st, 2)
                 ELSE set_data_malloc(st, out.size),
                 data(st, 2), data(st, 1), size(a))
        ELSE eval(st, "Power")

----------------------------------------------------------------------------
(* Scan.  A pointer is an element offset into its block (offset 0 is the   *)
(* block's first element, held at index 1 of the sequence).                *)

\* vDSP_vrsum(A, IA, S, C, IC, N): C[0] = 0 and C[n] = C[n-1] + *S * A[n] for
\* 0 < n < N; A[0] is not read.  A and C are the offsets into the blocks inm
\* and outm; the result is the output block after the call.
RECURSIVE vrsumFrom(_, _, _, _, _, _, _, _, _)
vrsumFrom(inm, A, IA, S, outm, C, IC, N, n) ==
    IF n >= N THEN outm
    ELSE vrsumFrom(inm, A, IA, S,
                   [outm EXCEPT ![C + n * IC + 1] =
                       outm[C + (n - 1) * IC + 1] + FMul(S, inm[A + n * IA + 1])],
                   C, IC, N, n + 1)

vDSP_vrsum(inm, A, IA, S, outm, C, IC, N) ==
    IF N <= 0 THEN outm
    ELSE vrsumFrom(inm, A, IA, S, [outm EXCEPT ![C + 1] = 0], C, IC, N, 1)

\* The forward loop as it would be if the input pointer were not advanced
\* from one row to the next.
RECURSIVE ScanForward_input_not_advanced(_, _, _, _, _, _, _, _)
ScanForward_input_not_advanced(inm, outm, input, output, s, stride, count, i) ==
    IF i >= count THEN outm
    ELSE ScanForward_input_not_advanced(inm,
             vDSP_vrsum(inm, input - 1, 1, s, outm, output, 1, stride),
             input, output + stride, s, stride, count, i + 1)

\* for (int i = 0; i < count; i++) { vDSP_vrsum(input - 1, 1, &s, output, 1,
\* stride); input += stride; output += stride; }
RECURSIVE ScanForward(_, _, _, _, _, _, _, _)
ScanForward(inm, outm, input, output, s, stride, count, i) ==
    IF i >= count THEN outm
    ELSE ScanForward(inm,
                     vDSP_vrsum(inm, input - 1, 1, s, outm, output, 1, stride),
                     input + stride, output + stride, s, stride, count, i + 1)

\* for (int i = 0; i < count; i++) { input += stride - 1; output += stride - 1;
\* vDSP_vrsum(input + 1, -1, &s, output, -1, stride); input++; output++; }
RECURSIVE ScanReverse(_, _, _, _, _, _, _, _)
ScanReverse(inm, outm, input, output, s, stride, count, i) ==
    IF i >= count THEN outm
    ELSE ScanReverse(inm,
                     vDSP_vrsum(inm, (input + stride - 1) + 1, 0 - 1, s,
                                outm, output + stride - 1, 0 - 1, stride),
                     (input + stride - 1) + 1, (output + stride - 1) + 1,
                     s, stride, count, i + 1)

\* params.axis is axis_ + 1: the tuples of the model are indexed from 1.
Scan_eval_cpu(st) ==
    LET in == st.inputs[1]
        out == st.outs[1]
    IN  IF /\ params.reduce_type = "Sum"
           /\ out.dtype = "float32"
           /\ in.row_contiguous
           /\ in.strides[params.axis] = 1
           /\ ~params.inclusive
        THEN LET s1 == set_data_malloc(st, out.size)
                 stride == in.shape[params.axis]
                 count == size(in) \div stride
                 s == Scale
                 outm == s1.heap[s1.outs[1].buf]
             IN  IF ~params.reverse
                 THEN Routine(s1, "vDSP_vrsum",
                              ScanForward(data(st, 1), outm, 0, 0, s, stride, count, 0))
                 ELSE Routine(s1, "vDSP_vrsum",
                              ScanReverse(data(st, 1), outm, 0, 0, s, stride, count, 0))
        ELSE eval(st, "Scan")

----------------------------------------------------------------------------
(* Capability-matrix backend (no accelerator) *)

NoGpuPrims ==
    {"Abs", "Add", "AddMM", "Arange", "ArcCos", "ArcCosh", "ArcSin", "ArcSinh",
     "ArcTan", "ArcTanh", "ArgPartition", "ArgReduce", "ArgSort", "AsType",
     "AsStrided", "Broadcast", "Ceil", "Concatenate", "Convolution", "Copy",
     "Cos", "Cosh", "Divide", "Remainder", "Equal", "Erf", "ErfInv", "Exp",
     "FFT", "Floor", "Full", "Gather", "Greater", "GreaterEqual", "Less",
     "LessEqual", "Load", "Log", "Log1p", "LogicalNot", "LogicalAnd",
     "LogicalOr", "LogAddExp", "Matmul", "Maximum", "Minimum", "Multiply",
     "Negative", "NotEqual", "Pad", "Partition", "Power", "QuantizedMatmul",
     "RandomBits", "Reduce", "Reshape", "Round", "Scan", "Scatter", "Sigmoid",
     "Sign", "Sin", "Sinh", "Slice", "Softmax", "Sort", "Square", "Sqrt",
     "StopGradient", "Subtract", "Tan", "Tanh", "Transpose"}

NoGpuMultiPrims == {"Compiled", "CustomVJP", "Depends", "DivMod", "QRF", "Split"}

\* #func " has no GPU implementation."
NoGpuMessage(func) == func \o " has no GPU implementation."

\* NO_GPU as it would be if the entry point prepared its output before
\* reporting the missing implementation.
NO_GPU_prepares_output(func, st) ==
    Throw(set_data_malloc(st, st.outs[1].size), "runtime_error", NoGpuMessage(func))

\* NO_GPU(func): func::eval_gpu(inputs, out)
NO_GPU(func, st) == Throw(st, "runtime_error", NoGpuMessage(func))

\* NO_GPU_MULTI(func): func::eval_gpu(inputs, outputs)
NO_GPU_MULTI(func, st) == Throw(st, "runtime_error", NoGpuMessage(func))

----------------------------------------------------------------------------
(* Calls *)

\* No holder of an input has read it.
Idle == [i |-> 0, j |-> 0, v |-> 0]

NoParams == [axis |-> 1, reverse |-> FALSE, inclusive |-> FALSE,
             reduce_type |-> "Sum", recip |-> FALSE, base |-> "e"]

\* The scheduler calls backend be's entry point of primitive p, with fields
\* pa, on the inputs ins, whose storage blocks are hp, and the outputs os.
Call(be, p, pa, ins, os, hp) ==
    /\ pc = "ready"
    /\ backend = be
    /\ prim = p
    /\ params = pa
    /\ inputs = ins
    /\ outs = os
    /\ heap = hp
    /\ wr = [b \in DOMAIN hp |-> 0]
    /\ err = "none"
    /\ msg = ""
    /\ via = "none"
    /\ kern = "none"
    /\ target = [heap |-> <<>>, wr |-> <<>>]
    /\ rd = Idle

\* A dense 1-D array of n elements in block buf.
Vec(dtype, n, donatable, buf) ==
    Arr(dtype, <<n>>, <<1>>, TRUE, TRUE, donatable, buf)

\* A 1-D view of every second element of a longer buffer.
Strided(dtype, n, donatable, buf) ==
    Arr(dtype, <<n>>, <<2>>, FALSE, FALSE, donatable, buf)

\* eval_gpu is called with whatever the scheduler holds: one or two inputs,
\* one output (two for a multi-output primitive).
GpuCalls ==
    \E p \in NoGpuPrims \cup NoGpuMultiPrims, dt \in {"float32", "int32"},
       two \in BOOLEAN, don \in BOOLEAN :
        Call("gpu", p, NoParams,
             IF two THEN <<Vec(dt, 2, don, 1), Vec(dt, 2, FALSE, 2)>>
                    ELSE <<Vec(dt, 2, don, 1)>>,
             IF p \in NoGpuMultiPrims
                THEN <<OutArr(dt, 2), OutArr(dt, 2)>> ELSE <<OutArr(dt, 2)>>,
             IF two THEN <<Ramp(2, 1), Ramp(2, 2)>> ELSE <<Ramp(2, 1)>>)

\* The elements of an array of dtype dt: an unsigned array holds no
\* negative element.
Elems(dt, v) == IF is_unsigned(dt) THEN [j \in DOMAIN v |-> AbsV(v[j])] ELSE v

UnaryPrims ==
    {"Abs", "ArcCos", "ArcCosh", "ArcSin", "ArcSinh", "ArcTan", "ArcTanh",
     "AsType", "Cos", "Cosh", "Exp", "Log", "Log1p", "Negative", "Sin", "Sinh",
     "Square", "Sqrt", "Tan", "Tanh"}

UnaryParams(p) ==
    IF p = "Sqrt" THEN {[NoParams EXCEPT !.recip = r] : r \in BOOLEAN}
    ELSE IF p = "Log" THEN {[NoParams EXCEPT !.base = b] : b \in {"e", "two", "ten"}}
    ELSE {NoParams}

\* One input of n elements, dense or strided, donatable or shared, and an
\* output of any dtype with as many elements.
UnaryCalls ==
    \E p \in UnaryPrims :
        \E pa \in UnaryParams(p), dt \in DTypes, odt \in DTypes,
           dense \in BOOLEAN, don \in BOOLEAN, n \in 1..MaxLen,
           x \in {0 - MaxVal, 0, 1} :
            Call("cpu", p, pa,
                 <<IF dense THEN Vec(dt, n, don, 1) ELSE Strided(dt, n, don, 1)>>,
                 <<OutArr(odt, n)>>,
                 <<Elems(dt, Ramp(n, x))>>)

\* Full: the input and the output have one dtype (asserted by eval_cpu).
FullCalls ==
    \E dt \in DTypes, m \in 1..MaxLen, n \in 1..MaxLen, don \in BOOLEAN, x \in Vals :
        Call("cpu", "Full", NoParams, <<Vec(dt, m, don, 1)>>, <<OutArr(dt, n)>>,
             <<Elems(dt, Ramp(m, x))>>)

\* The generic evaluation of the DEFAULT primitives, on one or two inputs.
DefaultCalls ==
    \E p \in DefaultPrims \cup DefaultMultiPrims, dt \in {"float32", "int32"},
       two \in BOOLEAN, don \in BOOLEAN :
        Call("cpu", p, NoParams,
             IF two THEN <<Vec(dt, 2, don, 1), Vec(dt, 2, FALSE, 2)>>
                    ELSE <<Vec(dt, 2, don, 1)>>,
             IF p \in DefaultMultiPrims
                THEN <<OutArr(dt, 2), OutArr(dt, 2)>> ELSE <<OutArr(dt, 2)>>,
             IF two THEN <<Ramp(2, 1), Ramp(2, 2)>> ELSE <<Ramp(2, 1)>>)

BinaryPrims == {"Add", "Divide", "Remainder", "Multiply", "Subtract"}

\* The operand lengths: scalar-scalar, scalar-vector, vector-scalar and two
\* vectors of one length.
BinaryShapes ==
    {<<1, 1>>} \cup UNION { {<<1, n>>, <<n, 1>>, <<n, n>>} : n \in 2..SeqMax(2, MaxLen) }

\* Two operands of one dtype, each dense or strided.  An integer division or
\* remainder by zero has no defined result and is not called.
BinaryCalls ==
    \E p \in BinaryPrims, dt \in {"float32", "int32", "int64"},
       sh \in BinaryShapes, da \in BOOLEAN, db \in BOOLEAN, dona \in BOOLEAN,
       x \in Vals, y \in Vals :
        /\ (p \in {"Divide", "Remainder"} /\ ~is_floating_point(dt)) =>
               \A j \in 1..sh[2] : Ramp(sh[2], y)[j] # 0
        /\ Call("cpu", p, NoParams,
                <<IF da THEN Vec(dt, sh[1], dona, 1) ELSE Strided(dt, sh[1], dona, 1),
                  IF db THEN Vec(dt, sh[2], FALSE, 2) ELSE Strided(dt, sh[2], FALSE, 2)>>,
                <<OutArr(dt, SeqMax(sh[1], sh[2]))>>,
                <<Ramp(sh[1], x), Ramp(sh[2], y)>>)

\* Power: the operands' and the output's dtypes, layouts and owners vary.
PowerCalls ==
    \E adt \in {"float32", "float16", "int32"}, bdt \in {"float32", "float16", "int32"},
       odt \in {"float32", "float16", "int32"}, ra \in BOOLEAN, rb \in BOOLEAN,
       dona \in BOOLEAN, donb \in BOOLEAN, n \in 1..MaxLen :
        Call("cpu", "Power", NoParams,
             <<Arr(adt, <<n>>, <<IF ra THEN 1 ELSE 2>>, ra, ra, dona, 1),
               Arr(bdt, <<n>>, <<IF rb THEN 1 ELSE 2>>, rb, rb, donb, 2)>>,
             <<OutArr(odt, n)>>,
             <<Ramp(n, 1), Ramp(n, 2)>>)

\* Scan: a 2-D input of r rows and c columns, row-major or column-major,
\* scanned along either axis.
ScanCalls ==
    \E ax \in {1, 2}, rev \in BOOLEAN, inc \in BOOLEAN, rt \in {"Sum", "Prod"},
       rowmajor \in BOOLEAN, dt \in {"float32", "int32"}, don \in BOOLEAN,
       r \in 1..MaxCount, c \in 1..MaxAxisLen, x \in Vals :
        Call("cpu", "Scan",
             [NoParams EXCEPT !.axis = ax, !.reverse = rev, !.inclusive = inc,
                              !.reduce_type = rt],
             <<IF rowmajor
               THEN Arr(dt, <<r, c>>, <<c, 1>>, TRUE, TRUE, don, 1)
               ELSE Arr(dt, <<r, c>>, <<1, r>>, TRUE, r = 1 \/ c = 1, don, 1)>>,
             <<OutArr(dt, r * c)>>,
             <<Ramp(r * c, x)>>)

----------------------------------------------------------------------------
(* The state machine *)

Init ==
    \/ GpuCalls
    \/ DefaultCalls
    \/ UnaryCalls
    \/ FullCalls
    \/ BinaryCalls
    \/ PowerCalls
    \/ ScanCalls

\* The entry point ran to its end (returned or threw), leaving state st.
Commit(st) ==
    /\ pc' = "done"
    /\ inputs' = st.inputs
    /\ outs' = st.outs
    /\ heap' = st.heap
    /\ wr' = st.wr
    /\ err' = st.err
    /\ msg' = st.msg
    /\ via' = st.via
    /\ kern' = st.kern
    /\ UNCHANGED <<backend, prim, params, target, rd>>

eval_gpu ==
    /\ pc = "ready" /\ backend = "gpu" /\ prim \in NoGpuPrims
    /\ Commit(NO_GPU(prim, Cur))

eval_gpu_multi ==
    /\ pc = "ready" /\ backend = "gpu" /\ prim \in NoGpuMultiPrims
    /\ Commit(NO_GPU_MULTI(prim, Cur))

\* A call of eval_cpu on primitive p is scheduled.
CpuCall(p) == pc = "ready" /\ backend = "cpu" /\ prim = p

eval_cpu_DEFAULT ==
    /\ pc = "ready" /\ backend = "cpu" /\ prim \in DefaultPrims
    /\ Commit(DEFAULT(prim, Cur))

eval_cpu_DEFAULT_MULTI ==
    /\ pc = "ready" /\ backend = "cpu" /\ prim \in DefaultMultiPrims
    /\ Commit(DEFAULT_MULTI(prim, Cur))

eval_cpu_Abs == CpuCall("Abs") /\ Commit(Abs_eval_cpu(Cur))

eval_cpu_Add == CpuCall("Add") /\ Commit(Add_eval_cpu(Cur))

eval_cpu_ArcCos == CpuCall("ArcCos") /\ Commit(ArcCos_eval_cpu(Cur))

eval_cpu_ArcCosh == CpuCall("ArcCosh") /\ Commit(ArcCosh_eval_cpu(Cur))

eval_cpu_ArcSin == CpuCall("ArcSin") /\ Commit(ArcSin_eval_cpu(Cur))

eval_cpu_ArcSinh == CpuCall("ArcSinh") /\ Commit(ArcSinh_eval_cpu(Cur))

eval_cpu_ArcTan == CpuCall("ArcTan") /\ Commit(ArcTan_eval_cpu(Cur))

eval_cpu_ArcTanh == CpuCall("ArcTanh") /\ Commit(ArcTanh_eval_cpu(Cur))

eval_cpu_AsType == CpuCall("AsType") /\ Commit(AsType_eval_cpu(Cur))

eval_cpu_Cos == CpuCall("Cos") /\ Commit(Cos_eval_cpu(Cur))

eval_cpu_Cosh == CpuCall("Cosh") /\ Commit(Cosh_eval_cpu(Cur))

eval_cpu_Divide == CpuCall("Divide") /\ Commit(Divide_eval_cpu(Cur))

eval_cpu_Remainder == CpuCall("Remainder") /\ Commit(Remainder_eval_cpu(Cur))

eval_cpu_Exp == CpuCall("Exp") /\ Commit(Exp_eval_cpu(Cur))

eval_cpu_Full == CpuCall("Full") /\ Commit(Full_eval_cpu(Cur))

eval_cpu_Log == CpuCall("Log") /\ Commit(Log_eval_cpu(Cur))

eval_cpu_Log1p == CpuCall("Log1p") /\ Commit(Log1p_eval_cpu(Cur))

eval_cpu_Multiply == CpuCall("Multiply") /\ Commit(Multiply_eval_cpu(Cur))

eval_cpu_Negative == CpuCall("Negative") /\ Commit(Negative_eval_cpu(Cur))

eval_cpu_Power == CpuCall("Power") /\ Commit(Power_eval_cpu(Cur))

eval_cpu_Scan == CpuCall("Scan") /\ Commit(Scan_eval_cpu(Cur))

eval_cpu_Sin == CpuCall("Sin") /\ Commit(Sin_eval_cpu(Cur))

eval_cpu_Sinh == CpuCall("Sinh") /\ Commit(Sinh_eval_cpu(Cur))

eval_cpu_Square == CpuCall("Square") /\ Commit(Square_eval_cpu(Cur))

eval_cpu_Sqrt == CpuCall("Sqrt") /\ Commit(Sqrt_eval_cpu(Cur))

eval_cpu_Subtract == CpuCall("Subtract") /\ Commit(Subtract_eval_cpu(Cur))

eval_cpu_Tan == CpuCall("Tan") /\ Commit(Tan_eval_cpu(Cur))

eval_cpu_Tanh == CpuCall("Tanh") /\ Commit(Tanh_eval_cpu(Cur))

Next ==
    \/ eval_gpu
    \/ eval_gpu_multi
    \/ eval_cpu_DEFAULT
    \/ eval_cpu_DEFAULT_MULTI
    \/ eval_cpu_Abs
    \/ eval_cpu_Add
    \/ eval_cpu_ArcCos
    \/ eval_cpu_ArcCosh
    \/ eval_cpu_ArcSin
    \/ eval_cpu_ArcSinh
    \/ eval_cpu_ArcTan
    \/ eval_cpu_ArcTanh
    \/ eval_cpu_AsType
    \/ eval_cpu_Cos
    \/ eval_cpu_Cosh
    \/ eval_cpu_Divide
    \/ eval_cpu_Remainder
    \/ eval_cpu_Exp
    \/ eval_cpu_Full
    \/ eval_cpu_Log
    \/ eval_cpu_Log1p
    \/ eval_cpu_Multiply
    \/ eval_cpu_Negative
    \/ eval_cpu_Power
    \/ eval_cpu_Scan
    \/ eval_cpu_Sin
    \/ eval_cpu_Sinh
    \/ eval_cpu_Square
    \/ eval_cpu_Sqrt
    \/ eval_cpu_Subtract
    \/ eval_cpu_Tan
    \/ eval_cpu_Tanh

Spec == Init /\ [][Next]_vars

----------------------------------------------------------------------------
(* A call beside another holder of its inputs.  An input that is not       *)
(* donatable has another holder, which may read the input's storage at any *)
(* moment, on another thread.  The call is taken in its steps: the entry   *)
(* point assigns the output storage, then the routine stores the output's  *)
(* elements one after another; the holder's reads fall between any two.    *)

\* eval_cpu of primitive p, run to its end on st.
eval_cpu(p, st) ==
    CASE p = "Abs" -> Abs_eval_cpu(st)
      [] p = "Add" -> Add_eval_cpu(st)
      [] p = "ArcCos" -> ArcCos_eval_cpu(st)
      [] p = "ArcCosh" -> ArcCosh_eval_cpu(st)
      [] p = "ArcSin" -> ArcSin_eval_cpu(st)
      [] p = "ArcSinh" -> ArcSinh_eval_cpu(st)
      [] p = "ArcTan" -> ArcTan_eval_cpu(st)
      [] p = "ArcTanh" -> ArcTanh_eval_cpu(st)
      [] p = "AsType" -> AsType_eval_cpu(st)
      [] p = "Cos" -> Cos_eval_cpu(st)
      [] p = "Cosh" -> Cosh_eval_cpu(st)
      [] p = "Divide" -> Divide_eval_cpu(st)
      [] p = "Remainder" -> Remainder_eval_cpu(st)
      [] p = "Exp" -> Exp_eval_cpu(st)
      [] p = "Full" -> Full_eval_cpu(st)
      [] p = "Log" -> Log_eval_cpu(st)
      [] p = "Log1p" -> Log1p_eval_cpu(st)
      [] p = "Multiply" -> Multiply_eval_cpu(st)
      [] p = "Negative" -> Negative_eval_cpu(st)
      [] p = "Power" -> Power_eval_cpu(st)
      [] p = "Scan" -> Scan_eval_cpu(st)
      [] p = "Sin" -> Sin_eval_cpu(st)
      [] p = "Sinh" -> Sinh_eval_cpu(st)
      [] p = "Square" -> Square_eval_cpu(st)
      [] p = "Sqrt" -> Sqrt_eval_cpu(st)
      [] p = "Subtract" -> Subtract_eval_cpu(st)
      [] p = "Tan" -> Tan_eval_cpu(st)
      [] p = "Tanh" -> Tanh_eval_cpu(st)
      [] p \in DefaultPrims -> DEFAULT(p, st)
      [] p \in DefaultMultiPrims -> DEFAULT_MULTI(p, st)

\* The scheduled eval_cpu calls, on operands that begin with 1 or 2.
InitShared ==
    /\ \/ DefaultCalls
       \/ UnaryCalls
       \/ FullCalls
       \/ BinaryCalls
       \/ PowerCalls
       \/ ScanCalls
    /\ \A b \in DOMAIN heap : heap[b][1] \in {1, 2}

\* The entry point runs up to its first store: it has thrown, or it has
\* assigned each output's storage (a new block holds what the allocator
\* returned) and chosen its routine.  target is what the stores will leave.
assign_storage ==
    /\ pc = "ready" /\ backend = "cpu"
    /\ LET fin == eval_cpu(prim, Cur) IN
        /\ pc' = IF fin.err = "none" /\ (\E b \in DOMAIN fin.wr : fin.wr[b] > 0)
                 THEN "storing" ELSE "done"
        /\ outs' = fin.outs
        /\ heap' = [b \in DOMAIN fin.heap |->
                       IF b \in DOMAIN heap THEN heap[b]
                       ELSE [j \in DOMAIN fin.heap[b] |-> Uninit]]
        /\ wr' = [b \in DOMAIN fin.wr |-> 0]
        /\ err' = fin.err
        /\ msg' = fin.msg
        /\ via' = fin.via
        /\ kern' = fin.kern
        /\ target' = [heap |-> fin.heap, wr |-> fin.wr]
    /\ UNCHANGED <<backend, prim, params, inputs, rd>>

\* The routine stores the next element of a block; after the last store of
\* the call the entry point returns.
store_element ==
    /\ pc = "storing"
    /\ \E b \in DOMAIN wr :
        /\ wr[b] < target.wr[b]
        /\ heap' = [heap EXCEPT ![b] = [j \in DOMAIN @ |->
                       IF j = wr[b] + 1 THEN target.heap[b][j] ELSE @[j]]]
        /\ wr' = [wr EXCEPT ![b] = @ + 1]
        /\ pc' = IF \A c \in DOMAIN wr : wr'[c] = target.wr[c]
                 THEN "done" ELSE "storing"
    /\ UNCHANGED <<backend, prim, params, inputs, outs, err, msg, via, kern,
                   target, rd>>

\* Another holder of an input that is not donatable reads one element of
\* the input's storage: before the call, between two of its steps, or after.
reader_read ==
    /\ backend = "cpu"
    /\ \E i \in DOMAIN inputs :
        /\ ~inputs[i].donatable
        /\ \E j \in DOMAIN heap[inputs[i].buf] :
              rd' = [i |-> i, j |-> j, v |-> heap[inputs[i].buf][j]]
    /\ UNCHANGED <<pc, backend, prim, params, inputs, outs, heap, wr, err, msg,
                   via, kern, target>>

NextShared ==
    \/ assign_storage
    \/ store_element
    \/ reader_read

SpecShared == InitShared /\ [][NextShared]_vars

----------------------------------------------------------------------------
(* Properties *)

\* C1: on the backend without an accelerator, eval_gpu of every enumerated
\* primitive, single-output or multi-output, ends with a runtime_error whose
\* message is "<primitive> has no GPU implementation.", and leaves every
\* output without storage and every storage block as it was.
C1_NoGpuThrowsByName ==
    [][(pc = "ready" /\ backend = "gpu") =>
          /\ pc' = "done"
          /\ err' = "runtime_error"
          /\ msg' = prim \o " has no GPU implementation."
          /\ outs' = outs
          /\ \A k \in DOMAIN outs' : outs'[k].buf = 0 /\ outs'[k].nassign = 0
          /\ heap' = heap
          /\ wr' = wr
          /\ inputs' = inputs]_vars

\* C1 witness: eval_gpu of QuantizedMatmul has thrown, naming itself.
C1_Witness ==
    /\ pc = "done" /\ backend = "gpu"
    /\ prim = "QuantizedMatmul"
    /\ err = "runtime_error"
    /\ msg = "QuantizedMatmul has no GPU implementation."
    /\ outs[1].buf = 0

DonationPrims == {"Abs", "Negative", "Square", "Sqrt"}

\* C2: Abs, Negative, Square and Sqrt on a contiguous float32 input with a
\* float32 output: a donatable input gives its storage block to the output;
\* a shared input leaves the output with a block allocated by the call,
\* distinct from the input's.
C2_DonationAliasing ==
    [][(/\ pc = "ready" /\ backend = "cpu" /\ prim \in DonationPrims
        /\ inputs[1].dtype = "float32" /\ inputs[1].contiguous
        /\ outs[1].dtype = "float32") =>
          IF inputs[1].donatable
          THEN outs'[1].buf = inputs[1].buf /\ DOMAIN heap' = DOMAIN heap
          ELSE /\ outs'[1].buf # inputs[1].buf
               /\ outs'[1].buf \notin DOMAIN heap
               /\ outs'[1].buf \in DOMAIN heap']_vars

\* C2 witness: Sqrt has run on a shared contiguous float32 input and its
\* output holds a block of its own.
C2_Witness ==
    /\ pc = "done" /\ backend = "cpu" /\ prim = "Sqrt"
    /\ inputs[1].dtype = "float32" /\ inputs[1].contiguous /\ ~inputs[1].donatable
    /\ outs[1].dtype = "float32"
    /\ outs[1].buf = 2 /\ inputs[1].buf = 1

\* C3: Abs of an unsigned-integer input, of any layout and donatable or not,
\* makes the output share the input's storage, stores no element and
\* allocates no block.
C3_UnsignedAbsNoOp ==
    [][(pc = "ready" /\ backend = "cpu" /\ prim = "Abs"
        /\ is_unsigned(inputs[1].dtype)) =>
          /\ err' = "none"
          /\ outs'[1].buf = inputs[1].buf
          /\ heap' = heap
          /\ wr' = wr
          /\ kern' = "none" /\ via' = "none"]_vars

\* C3 witness: Abs has run on a strided, shared uint8 input.
C3_Witness ==
    /\ pc = "done" /\ backend = "cpu" /\ prim = "Abs"
    /\ inputs[1].dtype = "uint8" /\ ~inputs[1].contiguous /\ ~inputs[1].donatable
    /\ outs[1].buf = inputs[1].buf
    /\ wr = <<0>>

\* C4: Remainder on floating-point operands follows fmod on every path: for
\* all a and nonzero b the result has the sign of the dividend a and a
\* magnitude below |b|, and it is the value RemainderFn gives, the float32
\* vector-vector kernel included.
C4_RemainderIsFmod ==
    [][(pc = "ready" /\ backend = "cpu" /\ prim = "Remainder"
        /\ is_floating_point(inputs[1].dtype)) =>
          \A j \in 1..outs[1].size :
              LET a == Elem(heap[inputs[1].buf], j)
                  b == Elem(heap[inputs[2].buf], j)
                  r == heap'[outs'[1].buf][j]
              IN  /\ b # 0 => (r = 0 \/ Sgn(r) = Sgn(a))
                  /\ b # 0 => AbsV(r) < AbsV(b)
                  /\ r = RemainderFn(inputs[1].dtype, a, b)]_vars

RECURSIVE SumRange(_, _, _)
\* v[lo] + ... + v[hi], 0 for an empty range.
SumRange(v, lo, hi) == IF lo > hi THEN 0 ELSE v[lo] + SumRange(v, lo + 1, hi)

\* The fast-path condition of Scan::eval_cpu.
ScanFastPath ==
    /\ params.reduce_type = "Sum"
    /\ outs[1].dtype = "float32"
    /\ inputs[1].row_contiguous
    /\ inputs[1].strides[params.axis] = 1
    /\ ~params.inclusive

\* C5: on the fast path of Scan the input is count = size / axis_length rows
\* of length axis_length, and in every row r at every position j the output
\* is the sum of the row's elements before j (forward) or after j (reverse);
\* no output element depends on another row.
C5_ScanExclusiveRows ==
    [][(pc = "ready" /\ backend = "cpu" /\ prim = "Scan" /\ ScanFastPath) =>
          LET L == inputs[1].shape[params.axis]
              in == heap[inputs[1].buf]
              out == heap'[outs'[1].buf]
          IN  /\ kern' = "vDSP_vrsum"
              /\ Len(out) = Len(in)
              /\ \A r \in 0..((Len(in) \div L) - 1) : \A j \in 1..L :
                    out[r * L + j] =
                        IF ~params.reverse
                        THEN SumRange(in, r * L + 1, r * L + j - 1)
                        ELSE SumRange(in, r * L + j + 1, r * L + L)]_vars

\* C5 witness: the reverse scan of the two rows [1,2,3] and [-3,-2,-1] has
\* produced [5,3,0] and [-3,-1,0].
C5_Witness ==
    /\ pc = "done" /\ backend = "cpu" /\ prim = "Scan" /\ ScanFastPath
    /\ params.reverse
    /\ inputs[1].shape = <<2, 3>>
    /\ heap[inputs[1].buf] = <<1, 2, 3, 0 - 3, 0 - 2, 0 - 1>>
    /\ heap[outs[1].buf] = <<5, 3, 0, 0 - 3, 0 - 1, 0>>

\* C6: Exp and Log1p with an output dtype that is not floating-point end
\* with an invalid_argument error, the output without storage (neither
\* donated nor allocated) and no element computed.
C6_ExpLog1pRejectNonFloat ==
    [][(pc = "ready" /\ backend = "cpu" /\ prim \in {"Exp", "Log1p"}
        /\ ~is_floating_point(outs[1].dtype)) =>
          /\ err' = "invalid_argument"
          /\ outs' = outs
          /\ outs'[1].buf = 0 /\ outs'[1].nassign = 0
          /\ heap' = heap
          /\ wr' = wr
          /\ kern' = "none"]_vars

\* C6 witness: Log1p has thrown on a dense, donatable float32 input whose
\* output is int32.
C6_Witness ==
    /\ pc = "done" /\ backend = "cpu" /\ prim = "Log1p"
    /\ inputs[1].dtype = "float32" /\ inputs[1].contiguous /\ inputs[1].donatable
    /\ outs[1].dtype = "int32"
    /\ err = "invalid_argument"
    /\ outs[1].buf = 0

ArithPrims == {"Add", "Subtract", "Multiply", "Divide"}

\* a op b for the per-element op of primitive p.
ArithOp(p, dtype, x, y) ==
    CASE p = "Add" -> Add_op(x, y)
      [] p = "Subtract" -> Subtract_op(x, y)
      [] p = "Multiply" -> Multiply_op(dtype, x, y)
      [] p = "Divide" -> Divide_op(dtype, x, y)

\* C8: Add, Subtract, Multiply and Divide on float32 and int32 operands: in
\* every structural case (a scalar on the left, a scalar on the right, two
\* vectors), with a specialized kernel or with the no-specialization
\* sentinel in the slot, every output element is a op b, a the first input
\* and b the second.
C8_KernelsMatchGenericOp ==
    [][(pc = "ready" /\ backend = "cpu" /\ prim \in ArithPrims
        /\ inputs[1].dtype \in {"float32", "int32"}) =>
          /\ err' = "none"
          /\ Len(heap'[outs'[1].buf]) = outs[1].size
          /\ \A j \in 1..outs[1].size :
                heap'[outs'[1].buf][j] =
                    ArithOp(prim, inputs[1].dtype,
                            Elem(heap[inputs[1].buf], j),
                            Elem(heap[inputs[2].buf], j))]_vars

\* C8 witness: the scalar-left kernel of the float32 Subtract has computed
\* [1.5] - [0.5, 1.0] = [1.0, 0.5] (held in halves).
C8_Witness ==
    /\ pc = "done" /\ backend = "cpu" /\ prim = "Subtract"
    /\ inputs[1].dtype = "float32"
    /\ kern = "Subtract_float32_opsv"
    /\ heap[inputs[1].buf] = <<3>>
    /\ heap[inputs[2].buf] = <<1, 2>>
    /\ heap[outs[1].buf] = <<2, 1>>

\* The fast-path condition of Power::eval_cpu.
PowerFastPath ==
    /\ outs[1].dtype = "float32"
    /\ inputs[1].row_contiguous
    /\ inputs[2].row_contiguous

\* Input i may give its storage to the output: donatable, and of the
\* output's itemsize.
MayDonate(i) ==
    inputs[i].donatable /\ itemsize(inputs[i].dtype) = itemsize(outs[1].dtype)

\* C9: on the fast path of Power the output takes a's storage if a may
\* donate; otherwise b's if b may donate; otherwise a block allocated by the
\* call.  When both may donate the output holds a's block, not b's.
C9_PowerDonationOrder ==
    [][(pc = "ready" /\ backend = "cpu" /\ prim = "Power" /\ PowerFastPath) =>
          /\ kern' = "vvpowf"
          /\ IF MayDonate(1)
             THEN outs'[1].buf = inputs[1].buf /\ outs'[1].buf # inputs[2].buf
             ELSE IF MayDonate(2)
             THEN outs'[1].buf = inputs[2].buf
             ELSE outs'[1].buf \notin DOMAIN heap /\ outs'[1].buf \in DOMAIN heap'
          /\ (MayDonate(1) \/ MayDonate(2)) => DOMAIN heap' = DOMAIN heap]_vars

\* C9 witness: Power has run with both operands able to donate, and the
\* output holds a's block.
C9_Witness ==
    /\ pc = "done" /\ backend = "cpu" /\ prim = "Power" /\ PowerFastPath
    /\ MayDonate(1) /\ MayDonate(2)
    /\ outs[1].buf = inputs[1].buf
    /\ kern = "vvpowf"

\* C10: every eval_cpu that returns has assigned the storage of each output
\* exactly once (one aliasing, one allocation or one delegation to the
\* generic evaluation, never two), and every eval_cpu that throws has
\* assigned none.
C10_StorageAssignedOnce ==
    (pc = "done" /\ backend = "cpu") =>
        /\ err = "none" =>
              \A k \in DOMAIN outs : outs[k].nassign = 1 /\ outs[k].buf # 0
        /\ err # "none" =>
              \A k \in DOMAIN outs : outs[k].nassign = 0 /\ outs[k].buf = 0
        /\ ~(kern # "none" /\ via \in {"eval", "unary", "unary_fp"})

\* C10 witness: AsType has taken its float32 -> int32 fast path and
\* returned without entering the generic evaluation.
C10_Witness ==
    /\ pc = "done" /\ backend = "cpu" /\ prim = "AsType"
    /\ inputs[1].dtype = "float32" /\ outs[1].dtype = "int32"
    /\ kern = "vDSP_vfix32" /\ via = "none"
    /\ outs[1].nassign = 1
    /\ err = "none"

\* The call took a path of the entry point itself: a platform routine
\* stored the output, or the output was given the input's storage with
\* nothing to compute.
FastPathTaken ==
    /\ pc # "ready" /\ backend = "cpu"
    /\ kern # "none" \/ (via = "none" /\ err = "none")

\* C11: no fast path of eval_cpu stores an element into storage that another
\* holder can read.  At every step of a call, taken in any order with the
\* reads of the other holder: the block of each input that is not donatable
\* keeps its contents and receives no store, so two reads of one element,
\* the first possibly before the call and the second at any later moment,
\* return one value; every block that receives a store is either no input's
\* block (it was allocated by the call) or the block of an input that is
\* donatable and of the output's itemsize; and on the fast paths of Scan
\* and Full the output's block is no input's block.
C11_NoWriteToHeldStorage ==
    [][FastPathTaken' =>
          /\ \A i \in DOMAIN inputs : ~inputs[i].donatable =>
                /\ heap'[inputs[i].buf] = heap[inputs[i].buf]
                /\ wr'[inputs[i].buf] = 0
          /\ (rd # Idle /\ rd' # Idle /\ rd'.i = rd.i /\ rd'.j = rd.j) =>
                rd'.v = rd.v
          /\ \A b \in DOMAIN wr' : wr'[b] > 0 =>
                \/ \A i \in DOMAIN inputs : inputs[i].buf # b
                \/ \E i \in DOMAIN inputs : inputs[i].buf = b /\ MayDonate(i)
          /\ prim \in {"Scan", "Full"} =>
                \A i \in DOMAIN inputs : outs'[1].buf # inputs[i].buf]_vars

\* C11 witness: Power is between two stores of vvpowf into the storage that
\* a donated, its first element stored and its second not yet, and the
\* other holder of b, which is not donatable, has read b's second element.
C11_Witness ==
    /\ pc = "storing" /\ backend = "cpu" /\ prim = "Power" /\ kern = "vvpowf"
    /\ MayDonate(1) /\ ~inputs[2].donatable
    /\ outs[1].buf = inputs[1].buf
    /\ wr[inputs[1].buf] = 1 /\ target.wr[inputs[1].buf] = 2
    /\ heap[inputs[1].buf][1] = Opaque
    /\ rd = [i |-> 2, j |-> 2, v |-> heap[inputs[2].buf][2]]

====
